---- MODULE Spec2Model ----
(***************************************************************************)
(* A model of ign-gui's main window (src/src/MainWindow.cc): the window    *)
(* configuration record, its XML parser and printer, and the handlers of   *)
(* MainWindow that load, apply and save it.                                *)
(***************************************************************************)
EXTENDS Integers, Sequences, FiniteSets, TLC

VARIABLES
  config,         \* the WindowConfig the load path parses into and applies
  windowConfig,   \* MainWindowPrivate::windowConfig, the window's own copy
  appStyleSheet,  \* QApplication's style sheet
  pos,            \* the window's position <<x, y>>
  size,           \* the window's size <<width, height>>
  dockState,      \* what QMainWindow::saveState() returns
  docks,          \* number of QDockWidget children of the window
  menuVisible,    \* visibility of the File and Plugins menus
  actionVisible,  \* visibility of each entry of the Plugins menu
  dirs,           \* directories of the file system
  files,          \* regular files of the file system
  lastOp          \* history: the last operation, its inputs and its outputs

vars == <<config, windowConfig, appStyleSheet, pos, size, dockState, docks,
          menuVisible, actionVisible, dirs, files, lastOp>>

-----------------------------------------------------------------------------
(* Bounds of the model *)

MaxCoord == 1        \* coordinates and dimensions range over -1..MaxCoord
MaxShow == 2         \* longest showPlugins list
MaxPathLen == 2      \* longest path given to SaveConfig, in characters
MaxDocks == 1        \* most dock widgets attached to the window

Coords == -1..MaxCoord

RECURSIVE SeqsUpTo(_, _)
SeqsUpTo(S, n) ==
  IF n = 0 THEN {<<>>}
  ELSE LET shorter == SeqsUpTo(S, n - 1)
       IN  shorter \cup {Append(s, x) : s \in shorter, x \in S}

-----------------------------------------------------------------------------
(* Text conversions used by the parser and the printer *)

\* std::to_string(int)
to_string(n) == ToString(n)

\* XMLElement::QueryIntText: the element's text as an int, or failure
IntTexts == {to_string(n) : n \in Coords} \cup {"", "abc"}
QueryIntTextOk(t) == \E n \in Coords : to_string(n) = t
QueryIntTextVal(t) == CHOOSE n \in Coords : to_string(n) = t

\* stream << std::boolalpha << b, and XMLElement::SetAttribute(name, bool)
boolalpha(b) == IF b THEN "true" ELSE "false"

\* XMLUtil::ToBool: an integer text (non-zero is true), or true / false
BoolTexts == {"true", "false", "1", "0", "", "abc"}
ToBoolOk(t) == t \in {"true", "false", "1", "0"}
ToBoolVal(t) == t \in {"true", "1"}

\* XMLElement::SetText followed by printing and parsing: an element whose text
\* is empty or only white space has no text node once parsed (GetText is null,
\* written "" here)
BlankTexts == {"", " "}
PrintedText(s) == IF s \in BlankTexts THEN "" ELSE s

\* Base64 text is a sequence of alphabet indices 0..63; Pad stands for '='
\* (any number above 63 is a character outside the alphabet).
Pad == 64

\* QByteArray::toBase64
RECURSIVE toBase64(_)
toBase64(b) ==
  IF Len(b) = 0 THEN <<>>
  ELSE IF Len(b) = 1 THEN
    <<b[1] \div 4, (b[1] % 4) * 16, Pad, Pad>>
  ELSE IF Len(b) = 2 THEN
    <<b[1] \div 4, (b[1] % 4) * 16 + (b[2] \div 16), (b[2] % 16) * 4, Pad>>
  ELSE
    <<b[1] \div 4, (b[1] % 4) * 16 + (b[2] \div 16),
      (b[2] % 16) * 4 + (b[3] \div 64), b[3] % 64>>
      \o toBase64(SubSeq(b, 4, Len(b)))

\* QByteArray::fromBase64: characters outside the alphabet are skipped, every
\* 8 collected bits give a byte
RECURSIVE fromBase64Loop(_, _, _, _, _)
fromBase64Loop(t, i, buf, nbits, out) ==
  IF i > Len(t) THEN out
  ELSE IF t[i] > 63 THEN fromBase64Loop(t, i + 1, buf, nbits, out)
  ELSE LET buf2 == buf * 64 + t[i]
           n2 == nbits + 6
       IN  IF n2 >= 8
           THEN LET sh == IF n2 - 8 = 0 THEN 1
                          ELSE IF n2 - 8 = 2 THEN 4
                          ELSE IF n2 - 8 = 4 THEN 16 ELSE 64
                IN  fromBase64Loop(t, i + 1, buf2 % sh, n2 - 8,
                                   Append(out, (buf2 \div sh) % 256))
           ELSE fromBase64Loop(t, i + 1, buf2, n2, out)

fromBase64(t) == fromBase64Loop(t, 1, 0, 0, <<>>)

-----------------------------------------------------------------------------
(* WindowConfig *)

MenuKeys == {"file", "plugins"}
\* dock-layout blobs; a blob QMainWindow::restoreState accepts starts with
\* the version marker 255
Blobs == {<<>>, <<255>>, <<1, 255>>, <<255, 1, 254>>, <<255, 0, 16, 131>>}
StyleTexts == {"", "s1", "s2"}
PluginLabels == {"Foo", "Bar"}          \* the entries of the Plugins menu
ShowNames == {"Foo", "Nope"}            \* names a configuration may list
MenuMaps == UNION {[K -> BOOLEAN] : K \in SUBSET MenuKeys}

EmptyMap == [k \in {} |-> TRUE]
MapPut(m, k, v) == [x \in (DOMAIN m) \cup {k} |-> IF x = k THEN v ELSE m[x]]

\* a default-constructed WindowConfig (its declaration is in MainWindow.hh:
\* -1 for the geometry, empty state, style sheet, map and list)
DefaultConfig ==
  [posX |-> -1, posY |-> -1, width |-> -1, height |-> -1,
   state |-> <<>>, styleSheet |-> "", saveOnExit |-> FALSE,
   menuVisibilityMap |-> EmptyMap, pluginsFromPaths |-> TRUE,
   showPlugins |-> <<>>]

-----------------------------------------------------------------------------
(* XML documents, as tinyxml2 parses them.  root is "window" when the       *)
(* document has a root-level window element, and otherwise the name of its *)
(* first root element ("" when it has none); the other fields are the      *)
(* children of that element.  An element or attribute is a record          *)
(* [present, text]; text "" (<<>> for base64 text) is a null GetText().    *)

Elem(t) == [present |-> TRUE, text |-> t]
NoElem == [present |-> FALSE, text |-> ""]
NoElemB == [present |-> FALSE, text |-> <<>>]

NoFile == [present |-> FALSE, visible |-> NoElem]
NoPlugins == [present |-> FALSE, visible |-> NoElem, from_paths |-> NoElem,
              show |-> <<>>]
NoMenus == [present |-> FALSE, file |-> NoFile, plugins |-> NoPlugins]

EmptyWindowDoc ==
  [root |-> "window",
   position_x |-> NoElem, position_y |-> NoElem,
   width |-> NoElem, height |-> NoElem,
   save_on_exit |-> NoElem, state |-> NoElemB, stylesheet |-> NoElem,
   menus |-> NoMenus]

\* ---- WindowConfig::MergeFromXML ----

MergeInt(old, e) ==
  IF e.present /\ QueryIntTextOk(e.text) THEN QueryIntTextVal(e.text) ELSE old

MergeBool(old, e) ==
  IF e.present /\ ToBoolOk(e.text) THEN ToBoolVal(e.text) ELSE old

\* QueryBoolAttribute into a local initialised to dflt
BoolAttribute(a, dflt) == IF ToBoolOk(a.text) THEN ToBoolVal(a.text) ELSE dflt

MergeMenus(map, menus) ==
  LET m1 == IF menus.present /\ menus.file.present /\ menus.file.visible.present
            THEN MapPut(map, "file", BoolAttribute(menus.file.visible, TRUE))
            ELSE map
  IN  IF menus.present /\ menus.plugins.present
         /\ menus.plugins.visible.present
      THEN MapPut(m1, "plugins", BoolAttribute(menus.plugins.visible, TRUE))
      ELSE m1

MergeFromPaths(old, menus) ==
  IF menus.present /\ menus.plugins.present /\ menus.plugins.from_paths.present
  THEN BoolAttribute(menus.plugins.from_paths, FALSE)
  ELSE old

\* the show elements that have text, in document order
ShownNames(menus) ==
  IF menus.present /\ menus.plugins.present
  THEN SelectSeq(menus.plugins.show, LAMBDA t : t # "")
  ELSE <<>>

\* variant: showPlugins cleared before the show elements are read
MutMergeShowPluginsClear(old, menus) == ShownNames(menus)

MergeShowPlugins(old, menus) == old \o ShownNames(menus)

\* variant: any root element taken for the window element
MutHasWindowAnyRoot(doc) == doc.root # ""

\* doc.FirstChildElement("window") is not null
HasWindow(doc) == doc.root = "window"

\* the return value
MergeFromXMLRet(doc) == HasWindow(doc)

\* the record after the call
MergeFromXMLConfig(c, doc) ==
  IF ~HasWindow(doc) THEN c
  ELSE [posX |-> MergeInt(c.posX, doc.position_x),
        posY |-> MergeInt(c.posY, doc.position_y),
        width |-> MergeInt(c.width, doc.width),
        height |-> MergeInt(c.height, doc.height),
        saveOnExit |-> MergeBool(c.saveOnExit, doc.save_on_exit),
        state |-> IF doc.state.present THEN fromBase64(doc.state.text)
                  ELSE c.state,
        styleSheet |-> c.styleSheet,
        menuVisibilityMap |-> MergeMenus(c.menuVisibilityMap, doc.menus),
        pluginsFromPaths |-> MergeFromPaths(c.pluginsFromPaths, doc.menus),
        showPlugins |-> MergeShowPlugins(c.showPlugins, doc.menus)]

\* the application style sheet after the call (setStyleFromString)
MergeFromXMLStyle(style, doc) ==
  IF HasWindow(doc) /\ doc.stylesheet.present THEN doc.stylesheet.text
  ELSE style

\* ---- WindowConfig::XMLString ----

VisibleAttr(map, k) == IF k \in DOMAIN map THEN Elem(boolalpha(map[k])) ELSE NoElem

XMLString(c) ==
  [root |-> "window",
   position_x |-> Elem(to_string(c.posX)),
   position_y |-> Elem(to_string(c.posY)),
   state |-> Elem(toBase64(c.state)),
   width |-> Elem(to_string(c.width)),
   height |-> Elem(to_string(c.height)),
   save_on_exit |-> Elem(boolalpha(c.saveOnExit)),
   stylesheet |-> Elem(PrintedText(c.styleSheet)),
   menus |->
     [present |-> TRUE,
      file |-> [present |-> TRUE,
                visible |-> VisibleAttr(c.menuVisibilityMap, "file")],
      plugins |-> [present |-> TRUE,
                   visible |-> VisibleAttr(c.menuVisibilityMap, "plugins"),
                   from_paths |-> Elem(boolalpha(c.pluginsFromPaths)),
                   show |-> [i \in 1..Len(c.showPlugins) |->
                               PrintedText(c.showPlugins[i])]]]]

-----------------------------------------------------------------------------
(* The file system SaveConfig writes to.  A path is a sequence of          *)
(* characters; a directory or file is named by [abs, comps]: whether the   *)
(* path is absolute, and its components.  The root and the working         *)
(* directory (no components) always exist.                                 *)

PathChars == {"/", "\\", "a"}
Paths == SeqsUpTo(PathChars, MaxPathLen) \ {<<>>}

SetMax(S) == CHOOSE m \in S : \A x \in S : x <= m

\* dirName: find_last_of gives the 0-based index of the last separator, or
\* npos when there is none, and substr(0, npos) is the whole string
dirName(_path) ==
  LET found == {i \in 1..Len(_path) : _path[i] \in {"/", "\\"}}
  IN  IF found = {} THEN _path ELSE SubSeq(_path, 1, SetMax(found) - 1)

RECURSIVE SplitLoop(_, _, _, _)
SplitLoop(p, i, cur, acc) ==
  IF i > Len(p) THEN (IF cur = <<>> THEN acc ELSE Append(acc, cur))
  ELSE IF p[i] = "/"
       THEN SplitLoop(p, i + 1, <<>>,
                      IF cur = <<>> THEN acc ELSE Append(acc, cur))
       ELSE SplitLoop(p, i + 1, Append(cur, p[i]), acc)

\* the directory entry a path names
Entry(p) == [abs |-> (Len(p) > 0 /\ p[1] = "/"),
             comps |-> SplitLoop(p, 1, <<>>, <<>>)]

Prefix(e, k) == [abs |-> e.abs, comps |-> SubSeq(e.comps, 1, k)]
Parent(e) == Prefix(e, Len(e.comps) - 1)
IsDir(ds, e) == e.comps = <<>> \/ e \in ds

\* ignition::common::createDirectories: makes every leading part of the path
\* that does not exist; a part below a regular file cannot be made
createDirectories(ds, fs, perm, dirname) ==
  LET e == Entry(dirname)
  IN  IF ~perm THEN ds
      ELSE ds \cup {Prefix(e, k) : k \in
                      {n \in 1..Len(e.comps) :
                         \A j \in 1..n : Prefix(e, j) \notin fs}}

\* std::ofstream out(path): whether the file is open afterwards
OpenForWrite(ds, perm, path) ==
  LET e == Entry(path)
  IN  /\ perm
      /\ path[Len(path)] # "/"
      /\ e.comps # <<>>
      /\ ~IsDir(ds, e)
      /\ IsDir(ds, Parent(e))

-----------------------------------------------------------------------------
(* MainWindow *)

NoOp ==
  [op |-> "none", ret |-> TRUE, doc |-> EmptyWindowDoc, cfg |-> DefaultConfig,
   accepted |-> TRUE, selected |-> TRUE, loaded |-> TRUE, closed |-> TRUE,
   path |-> <<>>, perm |-> TRUE, calls |-> <<>>, opened |-> FALSE,
   dialog |-> FALSE,
   logged |-> FALSE, written |-> EmptyWindowDoc, fragments |-> 0,
   warned |-> {}]

Range(s) == {s[i] : i \in 1..Len(s)}

\* QMainWindow::restoreState: a blob is taken when it starts with the marker
restoreState(b) == Len(b) > 0 /\ b[1] = 255

\* ---- MainWindow::ApplyConfig, piece by piece ----

\* variant: the window moved when either coordinate is non-negative
MutMoveOnEitherCoord(p, c) ==
  IF c.posX >= 0 \/ c.posY >= 0 THEN <<c.posX, c.posY>> ELSE p

ApplyPos(p, c) ==
  IF c.posX >= 0 /\ c.posY >= 0 THEN <<c.posX, c.posY>> ELSE p

ApplySize(s, c) ==
  IF c.width >= 0 /\ c.height >= 0 THEN <<c.width, c.height>> ELSE s

ApplyState(d, c) ==
  IF c.state # <<>> /\ restoreState(c.state) THEN c.state ELSE d

ApplyMenus(mv, c) ==
  [k \in MenuKeys |-> IF k \in DOMAIN c.menuVisibilityMap
                      THEN c.menuVisibilityMap[k] ELSE mv[k]]

\* variant: pluginsFromPaths left out of the visibility test
MutShowOnlyListed(c) ==
  [l \in PluginLabels |-> l \in Range(c.showPlugins)]

ApplyPluginsMenu(c) ==
  [l \in PluginLabels |-> c.pluginsFromPaths \/ l \in Range(c.showPlugins)]

\* the names ApplyConfig warns about
MissingPlugins(c) == {n \in Range(c.showPlugins) : n \notin PluginLabels}

ApplyConfig(_config) ==
  /\ pos' = ApplyPos(pos, _config)
  /\ size' = ApplySize(size, _config)
  /\ dockState' = ApplyState(dockState, _config)
  /\ appStyleSheet' = _config.styleSheet
  /\ menuVisible' = ApplyMenus(menuVisible, _config)
  /\ actionVisible' = ApplyPluginsMenu(_config)
  /\ windowConfig' = _config
  /\ lastOp' = [NoOp EXCEPT !.op = "ApplyConfig", !.cfg = _config,
                            !.ret = TRUE, !.warned = MissingPlugins(_config)]
  /\ UNCHANGED <<config, docks, dirs, files>>

\* ---- MainWindow::UpdateWindowConfig ----

\* variant: the configuration rebuilt from a fresh record
MutUpdateFromFreshRecord(wc, p, s, d, style) ==
  [DefaultConfig EXCEPT !.posX = p[1], !.posY = p[2],
                        !.width = s[1], !.height = s[2],
                        !.state = d, !.styleSheet = style]

UpdateWindowConfig(wc, p, s, d, style) ==
  [wc EXCEPT !.posX = p[1], !.posY = p[2], !.width = s[1], !.height = s[2],
             !.state = d, !.styleSheet = style]

\* ---- MainWindow::SaveConfig ----

SaveConfig(op, _path, perm) ==
  LET wc == UpdateWindowConfig(windowConfig, pos, size, dockState,
                               appStyleSheet)
      dirname == dirName(_path)
      ds == createDirectories(dirs, files, perm, dirname)
      out == OpenForWrite(ds, perm, _path)
  IN  /\ windowConfig' = wc
      /\ dirs' = ds
      /\ files' = IF out THEN files \cup {Entry(_path)} ELSE files
      /\ lastOp' = [NoOp EXCEPT !.op = op, !.path = _path, !.perm = perm,
                                !.opened = out,
                                !.dialog = ~out, !.logged = TRUE,
                                !.written = IF out THEN XMLString(wc)
                                            ELSE EmptyWindowDoc,
                                !.fragments = IF out THEN docks ELSE 0]
      /\ UNCHANGED <<config, appStyleSheet, pos, size, dockState, docks,
                     menuVisible, actionVisible>>

\* ---- MainWindow::OnSaveConfig, MainWindow::OnSaveConfigAs ----

\* defaultConfigPath(): a file in a directory below the home directory
defaultConfigPath == <<"/", "a", "/", "a">>

OnSaveConfig(perm) == SaveConfig("OnSaveConfig", defaultConfigPath, perm)

OnSaveConfigAs(accepted, selected, _path, perm) ==
  IF accepted /\ selected
  THEN SaveConfig("OnSaveConfigAs", _path, perm)
  ELSE /\ lastOp' = [NoOp EXCEPT !.op = "OnSaveConfigAs",
                                 !.accepted = accepted, !.selected = selected]
       /\ UNCHANGED <<config, windowConfig, appStyleSheet, pos, size,
                      dockState, docks, menuVisible, actionVisible, dirs,
                      files>>

\* ---- MainWindow::CloseAllDocks ----

CloseAllDocksRet == TRUE
CloseAllDocksDocks(n) == 0

\* ---- MainWindow::OnLoadConfig ----

\* loadConfig(path), defined in Iface.cc: reads the file, loads its plugins and
\* merges its window element into the configuration (config); fails when the
\* file cannot be read or has no window element.  addPluginsToWindow() docks
\* the plugins loaded, applyConfig() is ApplyConfig(config).
loadConfigRet(file) == file.readable /\ MergeFromXMLRet(file.doc)
loadConfigConfig(c, file) ==
  IF file.readable THEN MergeFromXMLConfig(c, file.doc) ELSE c
loadConfigStyle(style, file) ==
  IF file.readable THEN MergeFromXMLStyle(style, file.doc) ELSE style

LoadOrder == <<"loadConfig", "CloseAllDocks", "addPluginsToWindow",
               "applyConfig">>

\* variant: the result of loadConfig not looked at
MutLoadStepsIgnoreLoadResult(accepted, selected, loaded, closed) ==
  IF ~accepted \/ ~selected THEN <<>>
  ELSE IF ~closed THEN SubSeq(LoadOrder, 1, 2)
  ELSE LoadOrder

\* the calls OnLoadConfig makes, in order, given what the dialog, loadConfig
\* and CloseAllDocks return
LoadSteps(accepted, selected, loaded, closed) ==
  IF ~accepted \/ ~selected THEN <<>>
  ELSE IF ~loaded THEN SubSeq(LoadOrder, 1, 1)
  ELSE IF ~closed THEN SubSeq(LoadOrder, 1, 2)
  ELSE LoadOrder

OnLoadConfig(accepted, selected, file) ==
  LET loaded == loadConfigRet(file)
      calls == LoadSteps(accepted, selected, loaded, CloseAllDocksRet)
      did(step) == step \in Range(calls)
      c1 == IF did("loadConfig") THEN loadConfigConfig(config, file)
            ELSE config
      style1 == IF did("loadConfig") THEN loadConfigStyle(appStyleSheet, file)
                ELSE appStyleSheet
      docks1 == IF did("CloseAllDocks") THEN CloseAllDocksDocks(docks)
                ELSE docks
      docks2 == IF did("addPluginsToWindow") THEN file.plugins ELSE docks1
      apply == did("applyConfig")
  IN  /\ Len(c1.showPlugins) <= MaxShow
      /\ config' = c1
      /\ docks' = docks2
      /\ pos' = IF apply THEN ApplyPos(pos, c1) ELSE pos
      /\ size' = IF apply THEN ApplySize(size, c1) ELSE size
      /\ dockState' = IF apply THEN ApplyState(dockState, c1) ELSE dockState
      /\ appStyleSheet' = IF apply THEN c1.styleSheet ELSE style1
      /\ menuVisible' = IF apply THEN ApplyMenus(menuVisible, c1)
                        ELSE menuVisible
      /\ actionVisible' = IF apply THEN ApplyPluginsMenu(c1)
                          ELSE actionVisible
      /\ windowConfig' = IF apply THEN c1 ELSE windowConfig
      /\ lastOp' = [NoOp EXCEPT !.op = "OnLoadConfig", !.accepted = accepted,
                      !.selected = selected, !.loaded = loaded,
                      !.closed = CloseAllDocksRet, !.doc = file.doc,
                      !.calls = calls, !.cfg = c1,
                      !.warned = IF apply THEN MissingPlugins(c1) ELSE {}]
      /\ UNCHANGED <<dirs, files>>

\* ---- MainWindow::OnLoadStylesheet, MainWindow::OnAddPlugin ----

OnLoadStylesheet(accepted, selected, qss) ==
  /\ appStyleSheet' = IF accepted /\ selected THEN qss ELSE appStyleSheet
  /\ lastOp' = [NoOp EXCEPT !.op = "OnLoadStylesheet", !.accepted = accepted,
                            !.selected = selected]
  /\ UNCHANGED <<config, windowConfig, pos, size, dockState, docks,
                 menuVisible, actionVisible, dirs, files>>

OnAddPlugin(ok) ==
  /\ docks < MaxDocks
  /\ docks' = IF ok THEN docks + 1 ELSE docks
  /\ lastOp' = [NoOp EXCEPT !.op = "OnAddPlugin", !.ret = ok]
  /\ UNCHANGED <<config, windowConfig, appStyleSheet, pos, size, dockState,
                 menuVisible, actionVisible, dirs, files>>

\* ---- the window manager, the user, and code that changes menus ----

WindowMoved(x, y) ==
  /\ pos' = <<x, y>>
  /\ lastOp' = [NoOp EXCEPT !.op = "WindowMoved"]
  /\ UNCHANGED <<config, windowConfig, appStyleSheet, size, dockState, docks,
                 menuVisible, actionVisible, dirs, files>>

WindowResized(w, h) ==
  /\ size' = <<w, h>>
  /\ lastOp' = [NoOp EXCEPT !.op = "WindowResized"]
  /\ UNCHANGED <<config, windowConfig, appStyleSheet, pos, dockState, docks,
                 menuVisible, actionVisible, dirs, files>>

DocksRearranged(b) ==
  /\ restoreState(b)
  /\ dockState' = b
  /\ lastOp' = [NoOp EXCEPT !.op = "DocksRearranged"]
  /\ UNCHANGED <<config, windowConfig, appStyleSheet, pos, size, docks,
                 menuVisible, actionVisible, dirs, files>>

ToggleMenu(k) ==
  /\ menuVisible' = [menuVisible EXCEPT ![k] = ~menuVisible[k]]
  /\ lastOp' = [NoOp EXCEPT !.op = "ToggleMenu"]
  /\ UNCHANGED <<config, windowConfig, appStyleSheet, pos, size, dockState,
                 docks, actionVisible, dirs, files>>

TogglePluginEntry(l) ==
  /\ actionVisible' = [actionVisible EXCEPT ![l] = ~actionVisible[l]]
  /\ lastOp' = [NoOp EXCEPT !.op = "TogglePluginEntry"]
  /\ UNCHANGED <<config, windowConfig, appStyleSheet, pos, size, dockState,
                 docks, menuVisible, dirs, files>>

\* ---- WindowConfig's methods, called on the configuration being loaded ----

MergeFromXML(_windowXml) ==
  /\ Len(config.showPlugins) + Len(ShownNames(_windowXml.menus)) <= MaxShow
  /\ config' = MergeFromXMLConfig(config, _windowXml)
  /\ appStyleSheet' = MergeFromXMLStyle(appStyleSheet, _windowXml)
  /\ lastOp' = [NoOp EXCEPT !.op = "MergeFromXML", !.doc = _windowXml,
                            !.ret = MergeFromXMLRet(_windowXml)]
  /\ UNCHANGED <<windowConfig, pos, size, dockState, docks, menuVisible,
                 actionVisible, dirs, files>>

\* windowConfig.XMLString() parsed by a default-constructed WindowConfig
RoundTrip ==
  /\ lastOp.op # "RoundTrip"
  /\ config' = MergeFromXMLConfig(DefaultConfig, XMLString(windowConfig))
  /\ appStyleSheet' = MergeFromXMLStyle(appStyleSheet, XMLString(windowConfig))
  /\ lastOp' = [NoOp EXCEPT !.op = "RoundTrip", !.cfg = windowConfig,
                            !.doc = XMLString(windowConfig), !.ret = TRUE]
  /\ UNCHANGED <<windowConfig, pos, size, dockState, docks, menuVisible,
                 actionVisible, dirs, files>>

-----------------------------------------------------------------------------
(* The state after construction *)

Init ==
  /\ config = DefaultConfig
  /\ windowConfig = DefaultConfig
  /\ appStyleSheet = ""
  /\ pos = <<0, 0>>
  /\ size = <<0, 0>>
  /\ dockState = <<255>>
  /\ docks = 0
  /\ menuVisible = [k \in MenuKeys |-> TRUE]
  /\ actionVisible = [l \in PluginLabels |-> TRUE]
  /\ dirs = {}
  /\ files = {}
  /\ lastOp = NoOp

-----------------------------------------------------------------------------
(* Inputs *)

Dims == 0..MaxCoord
ShowLists == SeqsUpTo(ShowNames, MaxShow)
ShowTexts == SeqsUpTo(ShowNames \cup {""}, MaxShow)

MenusDoc(fileVisible, pluginsVisible, fromPaths, show) ==
  [present |-> TRUE,
   file |-> [present |-> TRUE, visible |-> fileVisible],
   plugins |-> [present |-> TRUE, visible |-> pluginsVisible,
                from_paths |-> fromPaths, show |-> show]]

AttrTexts == {NoElem, Elem("true"), Elem("false"), Elem("abc")}

\* window documents, each setting one group of elements
IntDocs == {[EmptyWindowDoc EXCEPT !.position_x = Elem(t)] : t \in IntTexts}
BoolDocs == {[EmptyWindowDoc EXCEPT !.save_on_exit = Elem(t)] : t \in BoolTexts}
StyleDocs == {[EmptyWindowDoc EXCEPT !.stylesheet = Elem(t)] : t \in StyleTexts}
AttrDocs ==
  {[EmptyWindowDoc EXCEPT !.menus = MenusDoc(f, NoElem, p, <<>>)] :
     f \in AttrTexts, p \in {NoElem, Elem("false"), Elem("abc")}}
ShowDocs ==
  {[EmptyWindowDoc EXCEPT !.menus = MenusDoc(NoElem, NoElem, NoElem, sh)] :
     sh \in ShowTexts}
FullDoc ==
  [EmptyWindowDoc EXCEPT !.position_x = Elem("0"), !.position_y = Elem("0"),
     !.width = Elem("1"), !.height = Elem("1"),
     !.save_on_exit = Elem("true"), !.state = Elem(toBase64(<<255, 1, 254>>)),
     !.stylesheet = Elem("s1"),
     !.menus = MenusDoc(Elem("false"), Elem("true"), Elem("false"),
                        <<"Foo">>)]

WindowDocs ==
  {EmptyWindowDoc, FullDoc} \cup IntDocs \cup BoolDocs \cup StyleDocs
    \cup AttrDocs \cup ShowDocs

\* documents with no window element: whatever they hold is not looked at
OtherDocs ==
  {[d EXCEPT !.root = r] :
     d \in {EmptyWindowDoc, FullDoc} \cup StyleDocs, r \in {"", "plugin"}}

DocsXML == WindowDocs \cup OtherDocs

-----------------------------------------------------------------------------
(* Specifications *)

\* the parser alone
NextXML == \E d \in DocsXML : MergeFromXML(d)

SpecXML == Init /\ [][NextXML]_vars

\* the printer and the parser: the window holds a configuration given to
\* ApplyConfig, which is printed and parsed into a fresh record
RoundTripConfigs ==
  [posX : Coords, posY : Coords, width : Coords, height : {-1, 0},
   state : Blobs, styleSheet : StyleTexts, saveOnExit : BOOLEAN,
   menuVisibilityMap : MenuMaps, pluginsFromPaths : BOOLEAN,
   showPlugins : ShowLists]

InitRoundTrip ==
  \E c \in RoundTripConfigs :
    /\ config = DefaultConfig
    /\ windowConfig = c
    /\ appStyleSheet = c.styleSheet
    /\ pos = ApplyPos(<<0, 0>>, c)
    /\ size = ApplySize(<<0, 0>>, c)
    /\ dockState = ApplyState(<<255>>, c)
    /\ docks = 0
    /\ menuVisible = ApplyMenus([k \in MenuKeys |-> TRUE], c)
    /\ actionVisible = ApplyPluginsMenu(c)
    /\ dirs = {}
    /\ files = {}
    /\ lastOp = [NoOp EXCEPT !.op = "ApplyConfig", !.cfg = c,
                             !.warned = MissingPlugins(c)]

NextRoundTrip == RoundTrip

SpecRoundTrip == InitRoundTrip /\ [][NextRoundTrip]_vars

\* the load path: the Load configuration action, the parser and ApplyConfig
\* on the configuration being loaded, the style sheet and plugin actions
DocsLoad ==
  {EmptyWindowDoc, FullDoc, [FullDoc EXCEPT !.root = "plugin"]}
    \cup StyleDocs
ConfigFiles == [readable : BOOLEAN, doc : DocsLoad, plugins : 0..MaxDocks]

NextLoad ==
  \/ \E accepted \in BOOLEAN, selected \in BOOLEAN, file \in ConfigFiles :
       OnLoadConfig(accepted, selected, file)
  \/ \E d \in DocsLoad : MergeFromXML(d)
  \/ ApplyConfig(config)
  \/ \E accepted \in BOOLEAN, selected \in BOOLEAN, qss \in StyleTexts :
       OnLoadStylesheet(accepted, selected, qss)
  \/ \E ok \in BOOLEAN : OnAddPlugin(ok)

SpecLoad == Init /\ [][NextLoad]_vars

\* the save path
NextSave ==
  \/ \E perm \in BOOLEAN : OnSaveConfig(perm)
  \/ \E accepted \in BOOLEAN, selected \in BOOLEAN, path \in Paths,
        perm \in BOOLEAN :
       OnSaveConfigAs(accepted, selected, path, perm)

SpecSave == Init /\ [][NextSave]_vars

\* ApplyConfig on configurations that set the geometry, with the window moved
\* and resized in between
GeomConfigs ==
  {[DefaultConfig EXCEPT !.posX = x, !.posY = y, !.width = w, !.height = w] :
     x \in Coords, y \in Coords, w \in {-1, MaxCoord}}
  \cup
  {[DefaultConfig EXCEPT !.posX = x, !.posY = x, !.width = w, !.height = h] :
     x \in {-1, 0}, w \in Coords, h \in Coords}

NextGeometry ==
  \/ \E c \in GeomConfigs : ApplyConfig(c)
  \/ \E x \in Dims, y \in Dims : WindowMoved(x, y)
  \/ \E w \in Dims, h \in Dims : WindowResized(w, h)

SpecGeometry == Init /\ [][NextGeometry]_vars

\* ApplyConfig on configurations that set the Plugins menu, with menus and
\* menu entries changed by code in between
PluginConfigs ==
  {[DefaultConfig EXCEPT !.pluginsFromPaths = f, !.showPlugins = sh] :
     f \in BOOLEAN, sh \in SeqsUpTo(PluginLabels \cup {"Nope"}, MaxShow)}

NextPlugins ==
  \/ \E c \in PluginConfigs : ApplyConfig(c)
  \/ \E k \in MenuKeys : ToggleMenu(k)
  \/ \E l \in PluginLabels : TogglePluginEntry(l)

SpecPlugins == Init /\ [][NextPlugins]_vars

\* ApplyConfig on configurations that set the menus, menus changed by code
\* afterwards, and saves
MenuConfigs ==
  {[DefaultConfig EXCEPT !.menuVisibilityMap = m, !.saveOnExit = b,
                         !.pluginsFromPaths = f,
                         !.showPlugins = IF f THEN <<>> ELSE <<"Foo">>] :
     m \in MenuMaps, b \in BOOLEAN, f \in BOOLEAN}

NextMenus ==
  \/ \E c \in MenuConfigs : ApplyConfig(c)
  \/ \E k \in MenuKeys : ToggleMenu(k)
  \/ \E l \in PluginLabels : TogglePluginEntry(l)
  \/ \E perm \in BOOLEAN : OnSaveConfig(perm)

SpecMenus == Init /\ [][NextMenus]_vars

\* the whole window: every handler, the parser and the environment, on a few
\* inputs each.  The specifications above are this one restricted to the
\* handlers a property is about, with more inputs for them.
SessionDocs == {FullDoc, [EmptyWindowDoc EXCEPT !.stylesheet = Elem("s2")],
                [FullDoc EXCEPT !.root = "plugin"]}
SessionFiles == [readable : BOOLEAN, doc : SessionDocs, plugins : {MaxDocks}]
SessionPaths == {<<"a">>, <<"a", "/">>}

Next ==
  \/ \E accepted \in BOOLEAN, file \in SessionFiles :
       OnLoadConfig(accepted, TRUE, file)
  \/ \E perm \in BOOLEAN : OnSaveConfig(perm)
  \/ \E accepted \in BOOLEAN, path \in SessionPaths :
       OnSaveConfigAs(accepted, TRUE, path, TRUE)
  \/ \E accepted \in BOOLEAN : OnLoadStylesheet(accepted, TRUE, "s1")
  \/ \E ok \in BOOLEAN : OnAddPlugin(ok)
  \/ \E d \in SessionDocs : MergeFromXML(d)
  \/ ApplyConfig(config)
  \/ RoundTrip
  \/ WindowMoved(MaxCoord, MaxCoord)
  \/ WindowResized(MaxCoord, 0)
  \/ DocksRearranged(<<255, 0, 16, 131>>)
  \/ ToggleMenu("file")
  \/ TogglePluginEntry("Bar")

Spec == Init /\ [][Next]_vars

-----------------------------------------------------------------------------
(* Claims *)

\* every field differs from a default-constructed record's (the menu map may
\* hold any of its keys)
NonDefault(c) ==
  /\ c.posX # -1 /\ c.posY # -1 /\ c.width # -1 /\ c.height # -1
  /\ c.state # <<>> /\ c.styleSheet # ""
  /\ c.saveOnExit # DefaultConfig.saveOnExit
  /\ c.pluginsFromPaths # DefaultConfig.pluginsFromPaths
  /\ c.showPlugins # <<>>

\* C1: a configuration with every field set to a non-default value, printed
\* by XMLString and parsed by MergeFromXML into a default-constructed record,
\* gives a record equal to it on every field, menu keys that were unset
\* staying unset.
C1_RoundTripEqual ==
  (lastOp.op = "RoundTrip" /\ NonDefault(lastOp.cfg)) => config = lastOp.cfg

\* the same, leaving the styleSheet field out of the comparison
C1_RoundTripButStyle ==
  (lastOp.op = "RoundTrip" /\ NonDefault(lastOp.cfg))
    => [config EXCEPT !.styleSheet = ""] = [lastOp.cfg EXCEPT !.styleSheet = ""]

\* C2: when the text has no root window element, MergeFromXML returns false
\* and leaves every field of the record, and the application style sheet, as
\* they were.
C2_NoWindowNoChange ==
  [][(lastOp'.op = "MergeFromXML" /\ lastOp'.doc.root # "window")
       => /\ lastOp'.ret = FALSE
          /\ config' = config
          /\ appStyleSheet' = appStyleSheet]_vars

C2_Witness ==
  /\ lastOp.op = "MergeFromXML"
  /\ lastOp.doc.root = "plugin"
  /\ lastOp.doc.stylesheet.present
  /\ lastOp.ret = FALSE
  /\ config # DefaultConfig
  /\ appStyleSheet # lastOp.doc.stylesheet.text

\* the text of the show elements of a document that have some, in order
ShowElementTexts(d) ==
  IF d.root = "window" /\ d.menus.present /\ d.menus.plugins.present
  THEN SelectSeq(d.menus.plugins.show, LAMBDA t : t # "")
  ELSE <<>>

\* C8 as stated: after a successful MergeFromXML(d), showPlugins is exactly
\* the show names of d, and parsing the same document a second time leaves the
\* record as it was after the first.
C8_Overwritten ==
  [][(lastOp'.op = "MergeFromXML" /\ lastOp'.ret)
       => /\ config'.showPlugins = ShowElementTexts(lastOp'.doc)
          /\ (lastOp.op = "MergeFromXML" /\ lastOp.doc = lastOp'.doc)
               => config' = config]_vars

\* C8 as amended: after a successful MergeFromXML(d), showPlugins is what it
\* was before followed by the show names of d in document order; parsing the
\* same document a second time appends them once more and leaves every other
\* field as it was after the first.
C8_Appended ==
  [][(lastOp'.op = "MergeFromXML" /\ lastOp'.ret)
       => /\ config'.showPlugins
               = config.showPlugins \o ShowElementTexts(lastOp'.doc)
          /\ (lastOp.op = "MergeFromXML" /\ lastOp.doc = lastOp'.doc)
               => /\ [config' EXCEPT !.showPlugins = <<>>]
                       = [config EXCEPT !.showPlugins = <<>>]
                  /\ appStyleSheet' = appStyleSheet]_vars

C8_Witness ==
  /\ lastOp.op = "MergeFromXML"
  /\ lastOp.ret
  /\ ShowElementTexts(lastOp.doc) = <<"Nope">>
  /\ config.showPlugins = <<"Foo", "Nope">>

IsPrefix(s, t) == Len(s) <= Len(t) /\ s = SubSeq(t, 1, Len(s))

\* what ApplyConfig and the steps before it act on
Window == <<windowConfig, pos, size, dockState, menuVisible, actionVisible>>

\* C3: OnLoadConfig runs loadConfig, CloseAllDocks, addPluginsToWindow and
\* applyConfig in that order, each only when every earlier step succeeded: none
\* when the dialog is cancelled or gives no file; after a failed loadConfig no
\* dock is closed, no plugin re-added and the configuration is not applied;
\* after a failed CloseAllDocks the last two steps are not run.
C3_LoadOrder ==
  [][lastOp'.op = "OnLoadConfig" =>
       LET o == lastOp'
       IN  /\ IsPrefix(o.calls, <<"loadConfig", "CloseAllDocks",
                                  "addPluginsToWindow", "applyConfig">>)
           /\ (~o.accepted \/ ~o.selected)
                => /\ o.calls = <<>>
                   /\ UNCHANGED <<config, appStyleSheet, docks, Window>>
           /\ (o.accepted /\ o.selected /\ ~o.loaded)
                => /\ o.calls = <<"loadConfig">>
                   /\ UNCHANGED <<docks, Window>>
           /\ (o.accepted /\ o.selected /\ o.loaded /\ ~o.closed)
                => /\ o.calls = <<"loadConfig", "CloseAllDocks">>
                   /\ UNCHANGED Window
           /\ (o.accepted /\ o.selected /\ o.loaded /\ o.closed)
                => /\ Len(o.calls) = 4
                   /\ windowConfig' = config']_vars

C3_Witness ==
  /\ lastOp.op = "OnLoadConfig"
  /\ lastOp.accepted /\ lastOp.selected /\ ~lastOp.loaded
  /\ lastOp.calls = <<"loadConfig">>
  /\ docks > 0
  /\ windowConfig # config

Saved(o) ==
  o.op \in {"OnSaveConfig", "OnSaveConfigAs"} /\ o.accepted /\ o.selected
    /\ o.path # <<>>

\* C4: SaveConfig logs "Saved configuration [path]" exactly when the file was
\* opened and the configuration written to it; when the file cannot be opened
\* the error dialog is shown, nothing is written and the save is not logged
\* as saved.
C4_LoggedIffWritten ==
  Saved(lastOp) =>
    /\ lastOp.logged <=> (lastOp.opened /\ Entry(lastOp.path) \in files)
    /\ ~lastOp.opened => (lastOp.dialog /\ ~lastOp.logged)

\* C5: ApplyConfig moves the window only when both posX and posY are
\* non-negative, to that position, and resizes it only when both width and
\* height are, to that size; otherwise position (size) stays as it was, so
\* no -1 ever becomes a coordinate or a dimension of the window.
C5_NoSentinelGeometry ==
  [][lastOp'.op = "ApplyConfig" =>
       LET c == lastOp'.cfg
       IN  /\ pos' = IF c.posX >= 0 /\ c.posY >= 0
                     THEN <<c.posX, c.posY>> ELSE pos
           /\ size' = IF c.width >= 0 /\ c.height >= 0
                      THEN <<c.width, c.height>> ELSE size
           /\ \A i \in 1..2 : pos'[i] >= 0 /\ size'[i] >= 0]_vars

C5_Witness ==
  /\ lastOp.op = "ApplyConfig"
  /\ lastOp.cfg.posX = -1 /\ lastOp.cfg.posY = -1
  /\ lastOp.cfg.width = MaxCoord /\ lastOp.cfg.height = MaxCoord
  /\ size = <<MaxCoord, MaxCoord>>
  /\ pos = <<MaxCoord, 0>>

\* C6: after ApplyConfig(c) an entry of the Plugins menu is visible exactly
\* when c.pluginsFromPaths is true or its label is in c.showPlugins; a listed
\* name that is no entry's label is warned about, and the call returns true.
C6_PluginsMenuVisibility ==
  lastOp.op = "ApplyConfig" =>
    LET c == lastOp.cfg
    IN  /\ \A l \in PluginLabels :
             actionVisible[l] <=>
               (c.pluginsFromPaths
                  \/ \E i \in 1..Len(c.showPlugins) : c.showPlugins[i] = l)
        /\ lastOp.warned
             = {c.showPlugins[i] : i \in 1..Len(c.showPlugins)} \ PluginLabels
        /\ lastOp.ret = TRUE

C6_Witness ==
  /\ lastOp.op = "ApplyConfig"
  /\ ~lastOp.cfg.pluginsFromPaths
  /\ lastOp.cfg.showPlugins = <<"Nope", "Foo">>
  /\ actionVisible["Foo"] /\ ~actionVisible["Bar"]
  /\ lastOp.warned = {"Nope"}

\* the menus element XMLString must print for a configuration
MenusBlock(c) ==
  [present |-> TRUE,
   file |-> [present |-> TRUE,
             visible |-> IF "file" \in DOMAIN c.menuVisibilityMap
                         THEN Elem(boolalpha(c.menuVisibilityMap["file"]))
                         ELSE NoElem],
   plugins |-> [present |-> TRUE,
                visible |-> IF "plugins" \in DOMAIN c.menuVisibilityMap
                            THEN Elem(boolalpha(c.menuVisibilityMap["plugins"]))
                            ELSE NoElem,
                from_paths |-> Elem(boolalpha(c.pluginsFromPaths)),
                show |-> c.showPlugins]]

\* the fields UpdateWindowConfig must leave alone
Kept(c) == <<c.menuVisibilityMap, c.pluginsFromPaths, c.showPlugins,
             c.saveOnExit>>

\* C7: a save changes only posX, posY, width, height, state and styleSheet of
\* the window's configuration, to the live values; menuVisibilityMap,
\* pluginsFromPaths, showPlugins and saveOnExit change only in ApplyConfig(c),
\* which sets them to c's, so the menus block a save writes is the one of the
\* configuration last applied whatever the menus show.
C7_MenusKept ==
  [][/\ lastOp'.op = "ApplyConfig" => Kept(windowConfig') = Kept(lastOp'.cfg)
     /\ lastOp'.op # "ApplyConfig" => Kept(windowConfig') = Kept(windowConfig)
     /\ Saved(lastOp') =>
          /\ windowConfig' =
               [windowConfig EXCEPT !.posX = pos[1], !.posY = pos[2],
                  !.width = size[1], !.height = size[2],
                  !.state = dockState, !.styleSheet = appStyleSheet]
          /\ lastOp'.opened =>
               lastOp'.written.menus = MenusBlock(windowConfig)]_vars

C7_Witness ==
  /\ lastOp.op = "OnSaveConfig"
  /\ lastOp.opened
  /\ DOMAIN windowConfig.menuVisibilityMap = {"file"}
  /\ windowConfig.menuVisibilityMap["file"] = FALSE
  /\ menuVisible["file"] = TRUE
  /\ menuVisible["plugins"] = FALSE
  /\ lastOp.written.menus.file.visible = Elem("false")
  /\ ~lastOp.written.menus.plugins.visible.present

HasSeparator(p) == \E i \in 1..Len(p) : p[i] \in {"/", "\\"}

\* C9: for every path, one without a separator included, dirName(path) is
\* not the path itself, so a SaveConfig that is permitted to write makes no
\* directory at the path of the file, and the file opens.
C9_DirNameIsParent ==
  (Saved(lastOp) /\ lastOp.perm) =>
    /\ dirName(lastOp.path) # lastOp.path
    /\ ~HasSeparator(lastOp.path) =>
         /\ Entry(lastOp.path) \notin dirs
         /\ lastOp.opened

\* C10: when MergeFromXML has parsed a document whose stylesheet element has
\* text S into a record and ApplyConfig is then called with that record, the
\* application style sheet after ApplyConfig is S.
C10_StyleSurvivesLoad ==
  [][(/\ lastOp.op = "MergeFromXML" /\ lastOp.ret
      /\ lastOp.doc.stylesheet.present
      /\ lastOp'.op = "ApplyConfig" /\ lastOp'.cfg = config)
       => appStyleSheet' = lastOp.doc.stylesheet.text]_vars

====
